---- MODULE Spec2Model ----
(***************************************************************************)
(* Declaration resolution and type derivation (declarationUtils.ts):       *)
(* getDeclarationsForNameNode, resolveAliasDeclaration,                    *)
(* getTypeForDeclaration, transformTypeForPossibleEnumClass,               *)
(* getInferredTypeOfDeclaration and _applyLoaderActionsToModuleType.       *)
(*                                                                         *)
(* Declarations, parse nodes and import paths are heap objects; they are   *)
(* named by positive integers and None stands for undefined.  A string     *)
(* field that the code tests for truthiness (symbolName) is "" when unset. *)
(***************************************************************************)
EXTENDS Integers, Sequences, FiniteSets, TLC

VARIABLES
    decls,            \* the Declaration objects: id -> fields
    importLookup,     \* the ImportLookup capability: path -> ImportLookupResult
    lookedUp,         \* the paths importLookup was called with, in call order
    op,               \* which entry point this run exercises
    pc,               \* position of the running call
    declArg,          \* decl, the argument of the outermost call
    callStack,        \* `declaration` of every active resolveAliasDeclaration frame
    curDeclaration,   \* resolveAliasDeclaration: curDeclaration of the top frame
    alreadyVisited,   \* resolveAliasDeclaration: alreadyVisited of the top frame
    iters,            \* loop iterations started by the top frame
    exitLine,         \* the return statement the top frame left through
    usedFallback,     \* a submoduleFallback recursion happened in this run
    resolvedDecl,     \* value returned by the outermost resolveAliasDeclaration
    inferred,         \* value returned by getInferredTypeOfDeclaration
    parseNodes,       \* the parse tree: node id -> fields
    expressionType,   \* AnalyzerNodeInfo.getExpressionType: node id -> Type
    nodeScope,        \* getScopeForNode: node id -> scope id
    scopes,           \* the Scope objects: id -> [parent, symbolTable]
    classes,          \* class name -> [mro, fields]
    importInfo,       \* AnalyzerNodeInfo.getImportInfo: node id -> ImportResult
    nameNode,         \* node, the argument of getDeclarationsForNameNode
    nameResult,       \* value returned by getDeclarationsForNameNode
    declaredType      \* value returned by getTypeForDeclaration

analysis == <<parseNodes, expressionType, nodeScope, scopes, classes, importInfo>>
world == <<decls, analysis, nameNode, nameResult, declaredType>>

vars == <<decls, importLookup, lookedUp, op, pc, declArg, callStack, curDeclaration,
          alreadyVisited, iters, exitLine, usedFallback,
          resolvedDecl, inferred, analysis, nameNode, nameResult, declaredType>>

(***************************************************************************)
(* Bounds of the explored inputs.                                          *)
(***************************************************************************)
ChaseAliases == 3      \* Alias declarations in the alias-chase worlds
ChaseDecls == 1        \* longest Symbol declaration list in those worlds
SelectAliases == 2     \* Alias declarations in the selection worlds
SelectDecls == 3       \* longest Symbol declaration list in those worlds
LoaderDepth == 1       \* nesting of implicit imports below the root
LoaderPaths == 2       \* module paths the loader actions name
MaxVariants == 2       \* subtypes of the base type of a member access
NameDecls == 2         \* longest Symbol declaration list in the name worlds

(***************************************************************************)
(* Values.                                                                 *)
(***************************************************************************)
None == 0
NoName == ""
NoSymbols == [n \in {} |-> <<>>]

Range(s) == {s[i] : i \in DOMAIN s}

\* Type values (types.ts); NoType is an undefined Type.
NoType == [category |-> "Absent"]
UnknownType == [category |-> "Unknown"]
ClassType(c) == [category |-> "Class", details |-> c]
ObjectType(c) == [category |-> "Object", classType |-> c]

\* ModuleType.create(): fields is a fresh empty map (table None), loaderFields
\* is empty.  fields holds a reference: the path whose symbol table it is.
ModuleTypeCreate == [category |-> "Module", fields |-> None,
                     loaderFields |-> [n \in {} |-> NoType], docString |-> None]

\* Declaration constructors (declaration.ts).
AliasDecl(path, symbolName, fallback, implicitImports) ==
    [type |-> "Alias", path |-> path, symbolName |-> symbolName,
     submoduleFallback |-> fallback, implicitImports |-> implicitImports,
     typeAnnotationNode |-> None, node |-> None]

\* every other kind; typeAnnotationNode is set for an annotated Variable,
\* declaredType for a BuiltIn
Decl(type, node, annotation) ==
    [type |-> type, path |-> None, symbolName |-> NoName,
     submoduleFallback |-> None, implicitImports |-> <<>>,
     typeAnnotationNode |-> annotation, node |-> node]

\* Declaration[] | undefined: NotResolved is undefined
NotResolved == [defined |-> FALSE, declarations |-> <<>>]

\* ImportLookupResult, or undefined (found = FALSE).
LookupFailure == [found |-> FALSE, symbolTable |-> NoSymbols, docString |-> None]
LookupSuccess(table, doc) == [found |-> TRUE, symbolTable |-> table, docString |-> doc]

(***************************************************************************)
(* hasTypeForDeclaration                                                   *)
(***************************************************************************)
hasTypeForDeclaration(d) ==
    CASE d.type \in {"BuiltIn", "Class", "Function", "Method"} -> TRUE
      [] d.type \in {"Parameter", "Variable"} -> d.typeAnnotationNode # None
      [] d.type = "Alias" -> FALSE

\* Symbol: its declarations in source order, by id.
getDeclarations(symbol) == symbol

getTypedDeclarations(symbol) ==
    SelectSeq(symbol, LAMBDA d : hasTypeForDeclaration(decls[d]))

(***************************************************************************)
(* resolveAliasDeclaration, one loop iteration per action.                 *)
(***************************************************************************)
Top == callStack[Len(callStack)]
Cur == decls[curDeclaration]

InLoop == pc = "resolve"

\* lines 139-145: importLookup(curDeclaration.path) when the path is set
LookupResult ==
    IF Cur.path # None THEN importLookup[Cur.path] ELSE LookupFailure

\* a failed lookup that is not told apart from an empty symbol table
LookupFailureIgnored == FALSE

\* lines 142-144
LookupFailed == Cur.path # None /\ ~importLookup[Cur.path].found

\* lines 140-141: the calls of importLookup once this iteration has made its own
Looked ==
    IF Cur.type = "Alias" /\ Cur.symbolName # NoName /\ Cur.path # None
    THEN Append(lookedUp, Cur.path)
    ELSE lookedUp

\* lines 147-149: the Symbol found for symbolName
SymbolFound ==
    /\ Cur.type = "Alias"
    /\ Cur.symbolName # NoName
    /\ LookupResult.found
    /\ Cur.symbolName \in DOMAIN LookupResult.symbolTable

FoundSymbol == LookupResult.symbolTable[Cur.symbolName]

\* lines 159-166: typed declarations, else all declarations
Candidates ==
    IF Len(getTypedDeclarations(FoundSymbol)) = 0
    THEN getDeclarations(FoundSymbol)
    ELSE getTypedDeclarations(FoundSymbol)

\* a chase that takes the first declaration of the list
SelectedFirst == Candidates[1]

\* line 170
Selected == Candidates[Len(Candidates)]

\* a cycle guard that only recognises the declaration the call started from
IsVisitedStartOnly(d) == d = Top /\ \E i \in DOMAIN alreadyVisited : alreadyVisited[i] = d

\* line 173
IsVisited(d) == \E i \in DOMAIN alreadyVisited : alreadyVisited[i] = d

\* every frame returns the value of the frame above it (line 152), so a return
\* unwinds the whole stack
Return(value, line) ==
    /\ pc' = "resolved"
    /\ resolvedDecl' = value
    /\ exitLine' = line
    /\ iters' = iters + 1
    /\ lookedUp' = Looked
    /\ UNCHANGED <<world, importLookup, op, declArg, callStack, alreadyVisited,
                   usedFallback, inferred>>

\* lines 131-133
ReturnNonAlias ==
    /\ InLoop
    /\ Cur.type # "Alias"
    /\ Return(curDeclaration, 132)
    /\ UNCHANGED curDeclaration

\* lines 135-137
ReturnModuleAlias ==
    /\ InLoop
    /\ Cur.type = "Alias"
    /\ Cur.symbolName = NoName
    /\ Return(curDeclaration, 136)
    /\ UNCHANGED curDeclaration

\* lines 140-144
ReturnLookupFailed ==
    /\ InLoop
    /\ Cur.type = "Alias"
    /\ Cur.symbolName # NoName
    /\ LookupFailed
    /\ Return(None, 143)
    /\ UNCHANGED curDeclaration

\* a recursion that carries the caller's alreadyVisited list along
RecurseOnFallbackKeepingVisited ==
    /\ InLoop
    /\ Cur.type = "Alias"
    /\ Cur.symbolName # NoName
    /\ ~LookupFailed
    /\ ~SymbolFound
    /\ Cur.submoduleFallback # None
    /\ IF Cur.submoduleFallback \in Range(callStack)
       THEN /\ pc' = "diverged"
            /\ UNCHANGED <<curDeclaration, iters>>
       ELSE /\ pc' = "resolve"
            /\ curDeclaration' = Cur.submoduleFallback
            /\ iters' = 0
    /\ callStack' = Append(callStack, Cur.submoduleFallback)
    /\ usedFallback' = TRUE
    /\ lookedUp' = Looked
    /\ UNCHANGED <<world, importLookup, op, declArg, exitLine, resolvedDecl, inferred,
                   alreadyVisited>>

\* lines 150-153: the recursive call on submoduleFallback.  A call whose argument
\* is already the argument of an active frame repeats that frame's execution
\* and recurses without end: the run is marked diverged.
RecurseOnFallback ==
    /\ InLoop
    /\ Cur.type = "Alias"
    /\ Cur.symbolName # NoName
    /\ ~LookupFailed
    /\ ~SymbolFound
    /\ Cur.submoduleFallback # None
    /\ IF Cur.submoduleFallback \in Range(callStack)
       THEN /\ pc' = "diverged"
            /\ UNCHANGED <<curDeclaration, alreadyVisited, iters>>
       ELSE /\ pc' = "resolve"
            /\ curDeclaration' = Cur.submoduleFallback
            /\ alreadyVisited' = <<>>
            /\ iters' = 0
    /\ callStack' = Append(callStack, Cur.submoduleFallback)
    /\ usedFallback' = TRUE
    /\ lookedUp' = Looked
    /\ UNCHANGED <<world, importLookup, op, declArg, exitLine, resolvedDecl, inferred>>

\* line 154
ReturnSymbolMissing ==
    /\ InLoop
    /\ Cur.type = "Alias"
    /\ Cur.symbolName # NoName
    /\ ~LookupFailed
    /\ ~SymbolFound
    /\ Cur.submoduleFallback = None
    /\ Return(None, 154)
    /\ UNCHANGED curDeclaration

\* lines 159-165
ReturnNoDeclarations ==
    /\ InLoop
    /\ SymbolFound
    /\ Len(Candidates) = 0
    /\ Return(None, 164)
    /\ UNCHANGED curDeclaration

\* lines 170-175: the selected declaration was already visited
ReturnCycle ==
    /\ InLoop
    /\ SymbolFound
    /\ Len(Candidates) > 0
    /\ IsVisited(Selected)
    /\ curDeclaration' = Selected
    /\ Return(Top, 174)

\* lines 170-176
Advance ==
    /\ InLoop
    /\ SymbolFound
    /\ Len(Candidates) > 0
    /\ ~IsVisited(Selected)
    /\ curDeclaration' = Selected
    /\ alreadyVisited' = Append(alreadyVisited, Selected)
    /\ iters' = iters + 1
    /\ lookedUp' = Looked
    /\ UNCHANGED <<world, importLookup, op, pc, declArg, callStack, exitLine,
                   usedFallback, resolvedDecl, inferred>>

(***************************************************************************)
(* Parse nodes (parseNodes.ts) and ParseTreeUtils.getEnclosingClass.       *)
(***************************************************************************)
\* name: the Name child of a Class, Function, Parameter or ImportFromAs node;
\* typeAnnotation: the annotation of a Parameter, the parsed forward reference
\* of a StringList; alias: of an ImportFromAs; leftExpression, memberName: of
\* a MemberAccess; nameParts: of a ModuleName; value: a Name's nameToken.value
Node(nodeType, parent, value) ==
    [nodeType |-> nodeType, parent |-> parent, value |-> value, name |-> None,
     typeAnnotation |-> None, alias |-> None, leftExpression |-> None,
     memberName |-> None, nameParts |-> <<>>]

getExpressionType(node) ==
    IF node \in DOMAIN expressionType THEN expressionType[node] ELSE NoType

\* the nearest enclosing Class node; with stopAtFunction a Function node on the
\* way ends the search
RECURSIVE EnclosingClassFrom(_, _)
EnclosingClassFrom(cur, stopAtFunction) ==
    IF cur = None THEN None
    ELSE IF parseNodes[cur].nodeType = "Class" THEN cur
    ELSE IF parseNodes[cur].nodeType = "Module" THEN None
    ELSE IF parseNodes[cur].nodeType = "Function" /\ stopAtFunction THEN None
    ELSE EnclosingClassFrom(parseNodes[cur].parent, stopAtFunction)

getEnclosingClass(node, stopAtFunction) ==
    EnclosingClassFrom(parseNodes[node].parent, stopAtFunction)

(***************************************************************************)
(* Class details (types.ts, typeUtils.ts): name -> [builtIn, enum].        *)
(***************************************************************************)
ClassDetails ==
    [Enum     |-> [builtIn |-> TRUE,  enum |-> TRUE],
     IntEnum  |-> [builtIn |-> TRUE,  enum |-> TRUE],
     Flag     |-> [builtIn |-> TRUE,  enum |-> TRUE],
     IntFlag  |-> [builtIn |-> TRUE,  enum |-> TRUE],
     int      |-> [builtIn |-> TRUE,  enum |-> FALSE],
     str      |-> [builtIn |-> TRUE,  enum |-> FALSE],
     Color    |-> [builtIn |-> FALSE, enum |-> TRUE],
     Point    |-> [builtIn |-> FALSE, enum |-> FALSE]]

isBuiltIn(classType) == ClassDetails[classType.details].builtIn
isEnumClass(classType) == ClassDetails[classType.details].enum

\* TypeUtils.convertClassToObject
convertClassToObject(type) ==
    IF type.category = "Class" THEN ObjectType(type.details) ELSE type

(***************************************************************************)
(* transformTypeForPossibleEnumClass, _getEnclosingEnumClass               *)
(***************************************************************************)
builtInEnumClasses == {"Enum", "IntEnum", "Flag", "IntFlag"}

\* the enclosing class whether it is an enum class or not
getEnclosingAnyClass(node) ==
    LET enclosingClassNode == getEnclosingClass(node, TRUE)
        enumClass == getExpressionType(enclosingClassNode)
    IN  IF enclosingClassNode = None THEN NoType
        ELSE IF isBuiltIn(enumClass) /\ enumClass.details \in builtInEnumClasses
             THEN NoType
        ELSE enumClass

\* the enum ClassType, or NoType
getEnclosingEnumClass(node) ==
    LET enclosingClassNode == getEnclosingClass(node, TRUE)
        enumClass == getExpressionType(enclosingClassNode)
    IN  IF enclosingClassNode = None THEN NoType
        ELSE IF isBuiltIn(enumClass) /\ enumClass.details \in builtInEnumClasses
             THEN NoType
        ELSE IF isEnumClass(enumClass) THEN enumClass
        ELSE NoType

transformTypeForPossibleEnumClass(node, typeOfExpr) ==
    LET enumClass == getEnclosingEnumClass(node)
    IN  IF enumClass # NoType THEN ObjectType(enumClass.details) ELSE typeOfExpr

(***************************************************************************)
(* getTypeForDeclaration                                                   *)
(***************************************************************************)
\* the annotation node as written, a string literal included
KeepStringList(annotation) == annotation

\* lines 194-196, 209-211: one level of string-literal forward reference
UnwrapStringList(annotation) ==
    IF annotation # None /\ parseNodes[annotation].nodeType = "StringList"
    THEN parseNodes[annotation].typeAnnotation
    ELSE annotation

getTypeForDeclaration(d) ==
    CASE d.type = "BuiltIn" -> d.declaredType
      [] d.type \in {"Class", "Function", "Method"} ->
            getExpressionType(parseNodes[d.node].name)
      [] d.type = "Parameter" ->
            LET typeAnnotationNode == UnwrapStringList(parseNodes[d.node].typeAnnotation)
            IN  IF typeAnnotationNode # None
                   /\ getExpressionType(typeAnnotationNode) # NoType
                THEN convertClassToObject(getExpressionType(typeAnnotationNode))
                ELSE NoType
      [] d.type = "Variable" ->
            LET typeAnnotationNode == UnwrapStringList(d.typeAnnotationNode)
            IN  IF typeAnnotationNode # None
                   /\ getExpressionType(typeAnnotationNode) # NoType
                THEN convertClassToObject(
                         transformTypeForPossibleEnumClass(
                             typeAnnotationNode, getExpressionType(typeAnnotationNode)))
                ELSE NoType
      [] d.type = "Alias" -> NoType

(***************************************************************************)
(* _applyLoaderActionsToModuleType.  loaderActions is an Alias or a        *)
(* ModuleLoaderActions: [path, implicitImports], implicitImports being the *)
(* Map's entries in insertion order.  The result is the returned Type, the *)
(* ImportLookup results as the call leaves them (moduleType.fields aliases *)
(* the looked-up symbol table) and the calls of importLookup made so far.  *)
(***************************************************************************)
SymbolWithType(type) == [type |-> type]

\* an implicit import registered in the module's fields instead
SetLoaderFieldInFields(st, name, symbolType) ==
    IF st.type.fields = None THEN st
    ELSE [st EXCEPT !.lookups[st.type.fields].symbolTable =
            [n \in DOMAIN st.lookups[st.type.fields].symbolTable \cup {name} |-> <<>>]]

\* line 389: moduleType.loaderFields.set(name, importedModuleSymbol)
SetLoaderField(st, name, symbolType) ==
    [st EXCEPT !.type.loaderFields =
        [n \in DOMAIN st.type.loaderFields \cup {name} |->
            IF n = name THEN SymbolWithType(symbolType)
            ELSE st.type.loaderFields[n]]]

\* lines 373-374
SetFields(moduleType, path, lookupResults) ==
    [moduleType EXCEPT !.fields = path, !.docString = lookupResults.docString]

RECURSIVE applyLoaderActionsToModuleType(_, _, _, _)
RECURSIVE ApplyImplicitImports(_, _, _)

\* lines 380-391: forEach over implicitImports from entry i on
ApplyImplicitImports(st, implicitImports, i) ==
    IF i > Len(implicitImports) THEN st
    ELSE LET sub == applyLoaderActionsToModuleType(
                        ModuleTypeCreate, implicitImports[i].actions, st.lookups,
                        st.calls)
             next == SetLoaderField([st EXCEPT !.lookups = sub.lookups,
                                               !.calls = sub.calls],
                                    implicitImports[i].name, sub.type)
         IN  ApplyImplicitImports(next, implicitImports, i + 1)

\* a failed lookup that leaves the module without fields and goes on to the
\* implicit imports
applyLoaderActionsPastFailure(moduleType, loaderActions, lookups, calls) ==
    LET called == IF loaderActions.path # None
                  THEN Append(calls, loaderActions.path)
                  ELSE calls
        populated == IF loaderActions.path # None /\ lookups[loaderActions.path].found
                     THEN SetFields(moduleType, loaderActions.path,
                                    lookups[loaderActions.path])
                     ELSE moduleType
    IN  ApplyImplicitImports(
            [type |-> populated, lookups |-> lookups, calls |-> called],
            loaderActions.implicitImports, 1)

\* lines 368-394
applyLoaderActionsToModuleType(moduleType, loaderActions, lookups, calls) ==
    LET called == IF loaderActions.path # None
                  THEN Append(calls, loaderActions.path)
                  ELSE calls
    IN  IF loaderActions.path # None /\ ~lookups[loaderActions.path].found
        THEN [type |-> UnknownType, lookups |-> lookups, calls |-> called]
        ELSE LET populated ==
                     IF loaderActions.path # None
                     THEN SetFields(moduleType, loaderActions.path,
                                    lookups[loaderActions.path])
                     ELSE moduleType
             IN  ApplyImplicitImports(
                     [type |-> populated, lookups |-> lookups, calls |-> called],
                     loaderActions.implicitImports, 1)

(***************************************************************************)
(* getInferredTypeOfDeclaration, from the return of its call of            *)
(* resolveAliasDeclaration (line 327) on.                                  *)
(***************************************************************************)
\* lines 332-345: the loader actions a resolved Alias is materialized from, or
\* None when the Alias falls through to line 348
LoaderRoot(d) ==
    IF decls[d].symbolName # NoName
    THEN IF decls[d].submoduleFallback # None
         THEN decls[d].submoduleFallback
         ELSE None
    ELSE d

\* lines 348-365
DerivedType(d) ==
    LET declared == getTypeForDeclaration(decls[d])
    IN  IF declared # NoType THEN declared
        ELSE IF decls[d].type = "Parameter"
             THEN IF parseNodes[decls[d].node].name # None
                  THEN getExpressionType(parseNodes[decls[d].node].name)
                  ELSE NoType
        ELSE IF decls[d].type = "Variable"
             THEN getExpressionType(decls[d].node)
        ELSE NoType

Materializes ==
    /\ resolvedDecl # None
    /\ decls[resolvedDecl].type = "Alias"
    /\ LoaderRoot(resolvedDecl) # None

getInferredTypeOfDeclaration ==
    /\ pc = "resolved"
    /\ op = "getInferredTypeOfDeclaration"
    /\ pc' = "done"
    /\ IF Materializes
       THEN LET r == applyLoaderActionsToModuleType(
                         ModuleTypeCreate, decls[LoaderRoot(resolvedDecl)], importLookup,
                         lookedUp)
            IN  /\ inferred' = r.type
                /\ importLookup' = r.lookups
                /\ lookedUp' = r.calls
       ELSE /\ inferred' = IF resolvedDecl # None THEN DerivedType(resolvedDecl)
                           ELSE NoType
            /\ UNCHANGED <<importLookup, lookedUp>>
    /\ declaredType' = IF ~Materializes /\ resolvedDecl # None
                        THEN getTypeForDeclaration(decls[resolvedDecl])
                        ELSE declaredType
    /\ UNCHANGED <<decls, analysis, nameNode, nameResult, op, declArg, callStack,
                   curDeclaration, alreadyVisited, iters, exitLine, usedFallback,
                   resolvedDecl>>

(***************************************************************************)
(* Member and scope lookups (typeUtils.ts, types.ts, scope.ts).  A lookup  *)
(* returns [found, symbol].                                                *)
(***************************************************************************)
NoSymbol == [found |-> FALSE, symbol |-> <<>>]
SomeSymbol(symbol) == [found |-> TRUE, symbol |-> symbol]

TableLookup(table, name) ==
    IF name \in DOMAIN table THEN SomeSymbol(table[name]) ELSE NoSymbol

\* the first class of the MRO, from position i on, that has the member; with
\* DeclaredTypesOnly a Symbol without typed declarations is passed over
RECURSIVE LookUpInMro(_, _, _, _)
LookUpInMro(mro, i, memberName, declaredTypesOnly) ==
    IF i > Len(mro) THEN NoSymbol
    ELSE LET member == TableLookup(classes[mro[i]].fields, memberName)
         IN  IF member.found
                /\ (~declaredTypesOnly \/ Len(getTypedDeclarations(member.symbol)) > 0)
             THEN member
             ELSE LookUpInMro(mro, i + 1, memberName, declaredTypesOnly)

lookUpClassMember(classType, memberName, declaredTypesOnly) ==
    LookUpInMro(classes[classType.details].mro, 1, memberName, declaredTypesOnly)

lookUpObjectMember(objectType, memberName, declaredTypesOnly) ==
    lookUpClassMember(ClassType(objectType.classType), memberName, declaredTypesOnly)

\* ModuleType.getField
getField(moduleType, name) ==
    IF moduleType.fields = None THEN NoSymbol
    ELSE TableLookup(importLookup[moduleType.fields].symbolTable, name)

\* Scope.lookUpSymbolRecursive
RECURSIVE lookUpSymbolRecursive(_, _)
lookUpSymbolRecursive(scope, name) ==
    LET here == TableLookup(scopes[scope].symbolTable, name)
    IN  IF here.found THEN here
        ELSE IF scopes[scope].parent # None
             THEN lookUpSymbolRecursive(scopes[scope].parent, name)
        ELSE NoSymbol

getScopeForNode(node) == nodeScope[node]

\* TypeUtils.doForSubtypes: the subtypes of a union in order, else the type
Subtypes(type) == IF type.category = "Union" THEN type.subtypes ELSE <<type>>

(***************************************************************************)
(* getDeclarationsForNameNode                                              *)
(***************************************************************************)
ParentOf(node) == parseNodes[parseNodes[node].parent]

\* the test without `node === node.parent.name`
IsImportAliasAnyName(node) ==
    /\ parseNodes[node].parent # None
    /\ parseNodes[parseNodes[node].parent].nodeType = "ImportFromAs"
    /\ parseNodes[parseNodes[node].parent].alias # None

\* lines 30-31
IsImportAliasSource(node) ==
    /\ parseNodes[node].parent # None
    /\ ParentOf(node).nodeType = "ImportFromAs"
    /\ ParentOf(node).alias # None
    /\ node = ParentOf(node).name

\* lines 36-37
IsMemberName(node) ==
    /\ parseNodes[node].parent # None
    /\ ParentOf(node).nodeType = "MemberAccess"
    /\ node = ParentOf(node).memberName

\* line 83
IsModuleNamePart(node) ==
    /\ parseNodes[node].parent # None
    /\ ParentOf(node).nodeType = "ModuleName"

\* lines 48-52, 59-63: the member with a declared type, else any member
PreferDeclared(declaredOnly, any) == IF declaredOnly.found THEN declaredOnly ELSE any

\* lines 43-69
MemberSymbol(subtype, memberName) ==
    CASE subtype.category = "Class" ->
            PreferDeclared(lookUpClassMember(subtype, memberName, TRUE),
                           lookUpClassMember(subtype, memberName, FALSE))
      [] subtype.category = "Object" ->
            PreferDeclared(lookUpObjectMember(subtype, memberName, TRUE),
                           lookUpObjectMember(subtype, memberName, FALSE))
      [] subtype.category = "Module" -> getField(subtype, memberName)
      [] OTHER -> NoSymbol

\* every declaration of the Symbol, typed or not
MemberDeclarationsAll(member) ==
    IF ~member.found THEN <<>> ELSE getDeclarations(member.symbol)

\* lines 71-78
MemberDeclarations(member) ==
    IF ~member.found THEN <<>>
    ELSE IF Len(getTypedDeclarations(member.symbol)) > 0
         THEN getTypedDeclarations(member.symbol)
    ELSE getDeclarations(member.symbol)

\* lines 42-81: declarations.push over the subtypes from position i on
RECURSIVE CollectMemberDeclarations(_, _, _, _)
CollectMemberDeclarations(declarations, subtypes, i, memberName) ==
    IF i > Len(subtypes) THEN declarations
    ELSE CollectMemberDeclarations(
             declarations \o MemberDeclarations(MemberSymbol(subtypes[i], memberName)),
             subtypes, i + 1, memberName)

\* line 84: nameParts.findIndex, counted from 1; 0 when the node is no part
NamePartIndex(node) ==
    LET hits == {i \in DOMAIN ParentOf(node).nameParts : ParentOf(node).nameParts[i] = node}
    IN  IF hits = {} THEN 0 ELSE CHOOSE i \in hits : \A j \in hits : i <= j

\* lines 86-87
HasResolvedPath(node) ==
    LET info == importInfo[parseNodes[node].parent]
    IN  /\ NamePartIndex(node) >= 1
        /\ info.present
        /\ NamePartIndex(node) <= Len(info.resolvedPaths)
        /\ info.resolvedPaths[NamePartIndex(node)] # None

Defined(declarations) == [defined |-> TRUE, declarations |-> declarations]

\* lines 23-113 but for the synthesized declaration of lines 90-97
NameDeclarations(node) ==
    IF IsImportAliasSource(node) THEN NotResolved
    ELSE IF IsMemberName(node)
         THEN LET baseType == getExpressionType(ParentOf(node).leftExpression)
              IN  IF baseType # NoType
                  THEN Defined(CollectMemberDeclarations(
                                   <<>>, Subtypes(baseType), 1,
                                   parseNodes[ParentOf(node).memberName].value))
                  ELSE Defined(<<>>)
    ELSE IF IsModuleNamePart(node)
         THEN IF HasResolvedPath(node) THEN Defined(<<Len(decls) + 1>>)
              ELSE Defined(<<>>)
    ELSE IF getScopeForNode(node) # None
         THEN LET symbolInScope ==
                      lookUpSymbolRecursive(getScopeForNode(node), parseNodes[node].value)
              IN  IF ~symbolInScope.found THEN NotResolved
                  ELSE Defined(getDeclarations(symbolInScope.symbol))
    ELSE Defined(<<>>)

getDeclarationsForNameNode ==
    /\ pc = "call"
    /\ pc' = "named"
    /\ nameResult' = NameDeclarations(nameNode)
    /\ decls' =
          IF ~IsImportAliasSource(nameNode) /\ ~IsMemberName(nameNode)
             /\ IsModuleNamePart(nameNode) /\ HasResolvedPath(nameNode)
          THEN Append(decls,
                      AliasDecl(importInfo[parseNodes[nameNode].parent]
                                    .resolvedPaths[NamePartIndex(nameNode)],
                                NoName, None, <<>>))
          ELSE decls
    /\ UNCHANGED <<importLookup, lookedUp, op, declArg, callStack, curDeclaration,
                   alreadyVisited, iters, exitLine, usedFallback, resolvedDecl,
                   inferred, analysis, nameNode, declaredType>>

\* the caller takes the first declaration found for the name and asks for its
\* type: the call of getInferredTypeOfDeclaration up to line 327
inferTypeOfFirstDeclaration ==
    /\ pc = "named"
    /\ nameResult.defined
    /\ Len(nameResult.declarations) > 0
    /\ op' = "getInferredTypeOfDeclaration"
    /\ pc' = "resolve"
    /\ declArg' = nameResult.declarations[1]
    /\ callStack' = <<nameResult.declarations[1]>>
    /\ curDeclaration' = nameResult.declarations[1]
    /\ alreadyVisited' = <<>>
    /\ iters' = 0
    /\ UNCHANGED <<world, importLookup, lookedUp, exitLine, usedFallback,
                   resolvedDecl, inferred>>

(***************************************************************************)
(* Alias worlds.  Declarations 1..n are Aliases, n+1 is an annotated       *)
(* Variable (v: int) and n+2 an unannotated one (u = "").  Alias i imports *)
(* from module i, whose docString is i.  The worlds are closed under       *)
(* renaming the Aliases, so the call starts at Alias 1 or at a Variable.   *)
(***************************************************************************)
SeqsUpTo(S, maxLen) == UNION {[1..k -> S] : k \in 0..maxLen}

\* what alias i is and what importLookup answers for its path
AliasConfigs(n, maxLen) ==
    {[symbolName |-> NoName, lookup |-> l, hasSymbol |-> FALSE, symbol |-> <<>>,
      fallback |-> None] : l \in {"nopath", "fail", "table"}}
    \cup
    {[symbolName |-> "x", lookup |-> l, hasSymbol |-> FALSE, symbol |-> <<>>,
      fallback |-> f] : l \in {"nopath", "fail", "table"}, f \in 0..n}
    \cup
    {[symbolName |-> "x", lookup |-> "table", hasSymbol |-> TRUE, symbol |-> s,
      fallback |-> f] : s \in SeqsUpTo(1..(n + 2), maxLen), f \in 0..n}

AliasDecls(n, cfg) ==
    [d \in 1..(n + 2) |->
        IF d <= n
        THEN AliasDecl(IF cfg[d].lookup = "nopath" THEN None ELSE d,
                       cfg[d].symbolName, cfg[d].fallback, <<>>)
        ELSE IF d = n + 1 THEN Decl("Variable", 2, 3)
        ELSE Decl("Variable", 4, None)]

AliasLookups(n, cfg) ==
    [p \in 1..n |->
        IF cfg[p].lookup # "table" THEN LookupFailure
        ELSE LookupSuccess(IF cfg[p].hasSymbol
                           THEN [name \in {"x"} |-> cfg[p].symbol]
                           ELSE NoSymbols, p)]

\* a call of getInferredTypeOfDeclaration on a declaration the caller holds:
\* no name is resolved, and scopes, classes and import results play no part
NoNameResolution ==
    /\ nodeScope = <<>>
    /\ scopes = <<>>
    /\ classes = <<>>
    /\ importInfo = <<>>
    /\ nameNode = None
    /\ nameResult = NotResolved
    /\ declaredType = NoType

\* v: int  and  u = ""  at module level
AliasParseNodes ==
    <<Node("Module", None, ""), Node("Name", 1, "v"), Node("Name", 1, "int"),
      Node("Name", 1, "u")>>

AliasExpressionTypes ==
    <<NoType, ObjectType("int"), ClassType("int"), ObjectType("str")>>

InitAlias(n, maxLen) ==
    \E cfg \in [1..n -> AliasConfigs(n, maxLen)], start \in {1, n + 1, n + 2} :
        /\ \A d \in 1..n : cfg[d].fallback # d
        /\ decls = AliasDecls(n, cfg)
        /\ importLookup = AliasLookups(n, cfg)
        /\ parseNodes = AliasParseNodes
        /\ expressionType = AliasExpressionTypes
        /\ NoNameResolution
        /\ lookedUp = <<>>
        /\ op = "getInferredTypeOfDeclaration"
        /\ pc = "resolve"
        /\ declArg = start
        /\ callStack = <<start>>
        /\ curDeclaration = start
        /\ alreadyVisited = <<>>
        /\ iters = 0
        /\ exitLine = 0
        /\ usedFallback = FALSE
        /\ resolvedDecl = None
        /\ inferred = NoType

resolveAliasDeclaration ==
    \/ ReturnNonAlias
    \/ ReturnModuleAlias
    \/ ReturnLookupFailed
    \/ RecurseOnFallback
    \/ ReturnSymbolMissing
    \/ ReturnNoDeclarations
    \/ ReturnCycle
    \/ Advance

InitChase == InitAlias(ChaseAliases, ChaseDecls)
NextChase == resolveAliasDeclaration \/ getInferredTypeOfDeclaration
SpecChase == InitChase /\ [][NextChase]_vars

InitSelect == InitAlias(SelectAliases, SelectDecls)
SpecSelect == InitSelect /\ [][NextChase]_vars

(***************************************************************************)
(* Loader worlds.  Declaration 1 is the Alias of `import pkg`: no          *)
(* symbolName, a path or none, and implicit imports nested LoaderDepth     *)
(* deep; declaration 2 is the Variable every module's table holds as "x".  *)
(* Each path's lookup succeeds or fails.                                   *)
(***************************************************************************)
LoaderNames == <<"os", "sub">>

\* the entry lists of a Map over LoaderNames, in that order, with values in
\* children
RECURSIVE ImportLists(_, _)
ImportLists(children, i) ==
    IF i > Len(LoaderNames) THEN {<<>>}
    ELSE LET rest == ImportLists(children, i + 1)
         IN  rest \cup {<<[name |-> LoaderNames[i], actions |-> c]>> \o r :
                            c \in children, r \in rest}

\* ModuleLoaderActions trees of at most the given depth
RECURSIVE LoaderTrees(_)
LoaderTrees(depth) ==
    {[path |-> p, implicitImports |-> l] :
        p \in 0..LoaderPaths,
        l \in IF depth = 0 THEN {<<>>} ELSE ImportLists(LoaderTrees(depth - 1), 1)}

LoaderLookups(found) ==
    [p \in 1..LoaderPaths |->
        IF found[p] THEN LookupSuccess([name \in {"x"} |-> <<2>>], p)
        ELSE LookupFailure]

InitLoader ==
    \E root \in LoaderTrees(LoaderDepth), found \in [1..LoaderPaths -> BOOLEAN] :
        /\ decls = <<AliasDecl(root.path, NoName, None, root.implicitImports),
                     Decl("Variable", 2, 3)>>
        /\ importLookup = LoaderLookups(found)
        /\ parseNodes = AliasParseNodes
        /\ expressionType = AliasExpressionTypes
        /\ NoNameResolution
        /\ lookedUp = <<>>
        /\ op = "getInferredTypeOfDeclaration"
        /\ pc = "resolve"
        /\ declArg = 1
        /\ callStack = <<1>>
        /\ curDeclaration = 1
        /\ alreadyVisited = <<>>
        /\ iters = 0
        /\ exitLine = 0
        /\ usedFallback = FALSE
        /\ resolvedDecl = None
        /\ inferred = NoType

NextLoader == ReturnModuleAlias \/ getInferredTypeOfDeclaration
SpecLoader == InitLoader /\ [][NextLoader]_vars

(***************************************************************************)
(* Name worlds.  The program                                               *)
(*     from mod import X as Y      nodes 2 (ImportFromAs), 3 (X), 4 (Y)    *)
(*     base.m                      nodes 5 (MemberAccess), 6 (base), 7 (m) *)
(*     import pkg.sub              nodes 8 (ModuleName), 9 (pkg), 10 (sub) *)
(*     v                           node 11                                 *)
(* under node 1, the module.  Variant i of the base type is class          *)
(* VariantClass[i] (deriving from VariantBase[i]), an instance of it, the  *)
(* module of path i, or a function; its member Symbols hold the Method     *)
(* 2i-1 (typed) and the unannotated Variable 2i (untyped).                 *)
(***************************************************************************)
VariantClass == <<"A", "B", "C">>
VariantBase == <<"PA", "PB", "PC">>

SymbolOptions(pool, maxLen) ==
    {NoSymbol} \cup {SomeSymbol(ds) : ds \in SeqsUpTo(pool, maxLen)}

VariantConfigs(i) ==
    {[category |-> c, own |-> o, inherited |-> h] :
        c \in {"Class", "Object"},
        o \in SymbolOptions({2 * i - 1, 2 * i}, NameDecls),
        h \in SymbolOptions({2 * i - 1, 2 * i}, NameDecls)}
    \cup
    {[category |-> "Module", own |-> o, inherited |-> NoSymbol] :
        o \in SymbolOptions({2 * i - 1, 2 * i}, NameDecls)}
    \cup
    {[category |-> "Function", own |-> NoSymbol, inherited |-> NoSymbol]}

RECURSIVE VariantSeqs(_)
VariantSeqs(k) ==
    IF k = 0 THEN {<<>>}
    ELSE {Append(vs, c) : vs \in VariantSeqs(k - 1), c \in VariantConfigs(k)}

VariantType(i, cfg) ==
    CASE cfg.category = "Class" -> ClassType(VariantClass[i])
      [] cfg.category = "Object" -> ObjectType(VariantClass[i])
      [] cfg.category = "Module" -> [ModuleTypeCreate EXCEPT !.fields = i]
      [] OTHER -> [category |-> cfg.category]

\* the type attached to the base expression: none, the one variant, or a union
BaseType(variants) ==
    IF Len(variants) = 0 THEN NoType
    ELSE IF Len(variants) = 1 THEN VariantType(1, variants[1])
    ELSE [category |-> "Union",
          subtypes |-> [i \in 1..Len(variants) |-> VariantType(i, variants[i])]]

TableOf(name, option) ==
    IF option.found THEN [n \in {name} |-> option.symbol] ELSE NoSymbols

NameClasses(variants) ==
    [c \in {VariantClass[i] : i \in 1..MaxVariants}
           \cup {VariantBase[i] : i \in 1..MaxVariants} |->
        LET i == CHOOSE j \in 1..MaxVariants : c \in {VariantClass[j], VariantBase[j]}
            option == IF i > Len(variants) THEN NoSymbol
                      ELSE IF c = VariantClass[i] THEN variants[i].own
                      ELSE variants[i].inherited
        IN  [mro |-> IF c = VariantClass[i] THEN <<c, VariantBase[i]>> ELSE <<c>>,
             fields |-> TableOf("m", option)]]

NameLookups(variants) ==
    [p \in 1..MaxVariants |->
        LookupSuccess(IF p <= Len(variants) /\ variants[p].category = "Module"
                      THEN TableOf("m", variants[p].own)
                      ELSE NoSymbols, p)]

NameDeclPool ==
    [d \in 1..(2 * MaxVariants) |->
        IF d % 2 = 1 THEN Decl("Method", None, None) ELSE Decl("Variable", None, None)]

NameParseNodes(hasAlias) ==
    <<Node("Module", None, ""),
      [Node("ImportFromAs", 1, "") EXCEPT !.name = 3,
                                          !.alias = IF hasAlias THEN 4 ELSE None],
      Node("Name", 2, "X"),
      Node("Name", 2, "Y"),
      [Node("MemberAccess", 1, "") EXCEPT !.leftExpression = 6, !.memberName = 7],
      Node("Name", 5, "base"),
      Node("Name", 5, "m"),
      [Node("ModuleName", 1, "") EXCEPT !.nameParts = <<9, 10>>],
      Node("Name", 8, "pkg"),
      Node("Name", 8, "sub"),
      Node("Name", 1, "v")>>

NoImportInfo == [present |-> FALSE, resolvedPaths |-> <<>>]

ImportInfos ==
    {NoImportInfo} \cup
    {[present |-> TRUE, resolvedPaths |-> r] : r \in SeqsUpTo(0..MaxVariants, 2)}

\* nothing has been called yet
NotStarted ==
    /\ lookedUp = <<>>
    /\ declArg = None
    /\ callStack = <<>>
    /\ curDeclaration = None
    /\ alreadyVisited = <<>>
    /\ iters = 0
    /\ exitLine = 0
    /\ usedFallback = FALSE
    /\ resolvedDecl = None
    /\ inferred = NoType
    /\ nameResult = NotResolved
    /\ declaredType = NoType

NameWorld(node, hasAlias, variants, scoped, local, outer, info) ==
    /\ decls = NameDeclPool
    /\ importLookup = NameLookups(variants)
    /\ parseNodes = NameParseNodes(hasAlias)
    /\ expressionType = [n \in 1..11 |-> IF n = 6 THEN BaseType(variants) ELSE NoType]
    /\ nodeScope = [n \in 1..11 |-> IF scoped THEN 1 ELSE None]
    /\ scopes = <<[parent |-> 2, symbolTable |-> TableOf(NameParseNodes(hasAlias)[node].value, local)],
                  [parent |-> None, symbolTable |-> TableOf(NameParseNodes(hasAlias)[node].value, outer)]>>
    /\ classes = NameClasses(variants)
    /\ importInfo = [n \in 1..11 |-> IF n = 8 THEN info ELSE NoImportInfo]
    /\ nameNode = node
    /\ op = "getDeclarationsForNameNode"
    /\ pc = "call"
    /\ NotStarted

InitName ==
    \/ \E k \in 0..MaxVariants : \E variants \in VariantSeqs(k) :
          NameWorld(7, TRUE, variants, TRUE, NoSymbol, NoSymbol, NoImportInfo)
    \/ \E node \in {3, 4, 6, 11}, hasAlias \in BOOLEAN, scoped \in BOOLEAN :
          \E local \in SymbolOptions({1, 2}, NameDecls),
             outer \in SymbolOptions({1, 2}, NameDecls) :
             /\ scoped \/ (local = NoSymbol /\ outer = NoSymbol)
             /\ NameWorld(node, hasAlias, <<>>, scoped, local, outer, NoImportInfo)
    \/ \E node \in {9, 10}, info \in ImportInfos :
          NameWorld(node, TRUE, <<>>, TRUE, NoSymbol, NoSymbol, info)

SpecName == InitName /\ [][getDeclarationsForNameNode]_vars

(***************************************************************************)
(* Type worlds.  The program                                               *)
(*     class C(...):               nodes 2 (Class), 3 (its name)           *)
(*         def f(self, p: T):      nodes 4 (Function), 5 (f),              *)
(*             ...                       10 (Parameter), 11 (p), 12, 13    *)
(*     v: T = value                nodes 6 (statement), 7 (v), 8, 9,       *)
(*                                       15 (value)                        *)
(*     ... use ...                 node 14                                 *)
(* where the statement of v stands at module level, in the body of C or in *)
(* the body of f, the annotation T is missing, an expression (node 8, 12)  *)
(* or a string literal (a StringList, its parsed annotation node 9, 13     *)
(* when the string parses as one), and the use names v or p.               *)
(***************************************************************************)
TypeClasses == {"Color", "Point", "Enum", "IntFlag"}
Containers == {"module", "class", "method"}
AnnotationForms == {"none", "plain", "quoted", "unparsed"}
AnnotationTypes == {NoType, ClassType("int"), ClassType("Point"), ObjectType("str")}
ValueTypes == {ObjectType("int"), ObjectType("str")}

ContainerNode(container) ==
    CASE container = "module" -> 1
      [] container = "class" -> 2
      [] container = "method" -> 4

AnnotationNode(form, parent) ==
    [Node(IF form = "plain" THEN "Name" ELSE "StringList", parent, "") EXCEPT
        !.typeAnnotation = IF form = "quoted" THEN (IF parent = 6 THEN 9 ELSE 13)
                           ELSE None]

TypeParseNodes(kind, container, form) ==
    <<Node("Module", None, ""),
      [Node("Class", 1, "") EXCEPT !.name = 3],
      Node("Name", 2, "C"),
      [Node("Function", 2, "") EXCEPT !.name = 5],
      Node("Name", 4, "f"),
      Node("Assignment", ContainerNode(container), ""),
      Node("Name", 6, "v"),
      AnnotationNode(form, 6),
      Node("Name", 8, ""),
      [Node("Parameter", 4, "") EXCEPT
          !.name = 11, !.typeAnnotation = IF form = "none" THEN None ELSE 12],
      Node("Name", 10, "p"),
      AnnotationNode(form, 10),
      Node("Name", 12, ""),
      Node("Name", 4, IF kind = "Variable" THEN "v" ELSE "p"),
      Node("Number", 6, "")>>

\* the type upstream inference attaches to the name node of an assignment
\* target: the type of the assigned value, reinterpreted as a member of the
\* class when the assignment stands directly in the body of an enum class
InferredNameType(nodes, types, valueType) ==
    IF nodes[nodes[nodes[7].parent].parent].nodeType = "Class"
       /\ ClassDetails[types[2].details].enum
       /\ ~(ClassDetails[types[2].details].builtIn
              /\ types[2].details \in {"Enum", "IntEnum", "Flag", "IntFlag"})
    THEN ObjectType(types[2].details)
    ELSE valueType

\* the Node->Type side table: the class, the annotation expressions and the
\* names of the assignment target and the parameter
TypeExpressionTypes(nodes, cls, form, annotationType, valueType) ==
    LET annotated == [n \in 1..15 |->
            IF n = 2 THEN ClassType(cls)
            ELSE IF n \in {8, 12} /\ form = "plain" THEN annotationType
            ELSE IF n \in {8, 12} /\ form \in {"quoted", "unparsed"} THEN ObjectType("str")
            ELSE IF n \in {9, 13} /\ form = "quoted" THEN annotationType
            ELSE IF n \in {11, 15} THEN valueType
            ELSE NoType]
    IN  [annotated EXCEPT ![7] = InferredNameType(nodes, annotated, valueType)]

TypeWorld(kind, container, cls, form, annotationType, valueType) ==
    /\ decls = <<IF kind = "Variable"
                 THEN Decl("Variable", 7, IF form = "none" THEN None ELSE 8)
                 ELSE Decl("Parameter", 10, None)>>
    /\ importLookup = <<>>
    /\ parseNodes = TypeParseNodes(kind, container, form)
    /\ expressionType = TypeExpressionTypes(TypeParseNodes(kind, container, form),
                                            cls, form, annotationType, valueType)
    /\ nodeScope = [n \in 1..15 |-> 1]
    /\ scopes = <<[parent |-> None,
                   symbolTable |-> [n \in {IF kind = "Variable" THEN "v" ELSE "p"} |-> <<1>>]]>>
    /\ classes = <<>>
    /\ importInfo = [n \in 1..15 |-> NoImportInfo]
    /\ nameNode = 14
    /\ op = "getDeclarationsForNameNode"
    /\ pc = "call"
    /\ NotStarted

InitType ==
    \E kind \in {"Variable", "Parameter"}, container \in Containers,
       cls \in TypeClasses, form \in AnnotationForms,
       annotationType \in AnnotationTypes, valueType \in ValueTypes :
        /\ kind = "Parameter" => container = "method"
        /\ form \in {"none", "unparsed"} => annotationType = NoType
        /\ TypeWorld(kind, container, cls, form, annotationType, valueType)

NextType ==
    \/ getDeclarationsForNameNode
    \/ inferTypeOfFirstDeclaration
    \/ ReturnNonAlias
    \/ getInferredTypeOfDeclaration

SpecType == InitType /\ [][NextType]_vars

(***************************************************************************)
(* The alias graph of a world: the declaration one loop iteration selects  *)
(* from d (None when the loop leaves at d), stated from the declarations   *)
(* and lookup results alone.                                               *)
(***************************************************************************)
Max(S) == CHOOSE m \in S : \A x \in S : x <= m
Min(S) == CHOOSE m \in S : \A x \in S : m <= x

SymbolOf(d) ==
    importLookup[decls[d].path].symbolTable[decls[d].symbolName]

HasSymbol(d) ==
    /\ decls[d].type = "Alias"
    /\ decls[d].symbolName # NoName
    /\ decls[d].path # None
    /\ importLookup[decls[d].path].found
    /\ decls[d].symbolName \in DOMAIN importLookup[decls[d].path].symbolTable

TypedPositions(ds) == {i \in DOMAIN ds : hasTypeForDeclaration(decls[ds[i]])}

EdgeOf(d) ==
    IF ~HasSymbol(d) THEN None
    ELSE LET ds == SymbolOf(d)
             typed == TypedPositions(ds)
         IN  IF typed # {} THEN ds[Max(typed)]
             ELSE IF ds # <<>> THEN ds[Len(ds)]
             ELSE None

\* the declarations the chase from d goes through, d first, as far as the
\* symbol-table edges lead and at most one step per declaration of the world;
\* it ends in None when the loop leaves
RECURSIVE Trail(_)
Trail(path) ==
    IF path[Len(path)] = None \/ Len(path) > Len(decls) THEN path
    ELSE Trail(Append(path, EdgeOf(path[Len(path)])))

ChasePath(d) == Trail(<<d>>)

\* the chase never leaves the symbol-table edges: it runs into a cycle
RunsIntoCycle(path) == path[Len(path)] # None

\* steps from the start to the first declaration on the cycle, and the
\* cycle's length
TailLength(path) ==
    Min({i \in 1..Len(path) : \E j \in (i + 1)..Len(path) : path[j] = path[i]}) - 1

CycleLength(path) ==
    Min({k \in 1..Len(path) :
            /\ TailLength(path) + 1 + k <= Len(path)
            /\ path[TailLength(path) + 1 + k] = path[TailLength(path) + 1]})

Returned == pc \in {"resolved", "done"}

(***************************************************************************)
(* C1: resolveAliasDeclaration terminates for every declaration and every  *)
(* finite ImportLookup, also when the alias graph has a cycle through a    *)
(* submoduleFallback edge: no run recurses without end.                    *)
(***************************************************************************)
C1_Terminates == pc # "diverged"

(***************************************************************************)
(* C2: when the chase selects a declaration it already visited (the return *)
(* of line 174), the outermost call returns its own argument decl, whether *)
(* or not the chase went through a submoduleFallback.                      *)
(***************************************************************************)
C2_CycleReturnsOriginal ==
    (Returned /\ exitLine = 174) => resolvedDecl = declArg

(***************************************************************************)
(* C3 as stated: a call whose chase reaches a cycle of length k runs its   *)
(* loop at most k+1 times, wherever the start lies.                        *)
(***************************************************************************)
C3_AtMostCyclePlusOne ==
    LET path == ChasePath(Top)
    IN  (pc # "diverged" /\ RunsIntoCycle(path)) => iters <= CycleLength(path) + 1

(***************************************************************************)
(* C3 amended: a call whose chase reaches a cycle of length k after t      *)
(* steps (t = 0 for a start on the cycle) runs its loop at most            *)
(* max(t, 1) + k times: k+1 for a start on the cycle, t+k otherwise.       *)
(***************************************************************************)
C3_LoopBound ==
    LET path == ChasePath(Top)
    IN  (pc # "diverged" /\ RunsIntoCycle(path)) =>
            iters <= (IF TailLength(path) = 0 THEN 1 ELSE TailLength(path))
                     + CycleLength(path)

\* a call that started two steps off the cycle has returned through the guard
C3_Witness ==
    /\ pc = "resolved"
    /\ exitLine = 174
    /\ RunsIntoCycle(ChasePath(Top))
    /\ TailLength(ChasePath(Top)) >= 2
    /\ iters = TailLength(ChasePath(Top)) + CycleLength(ChasePath(Top))

C5_ResolvedAliasMaterializes ==
    (pc = "done" /\ resolvedDecl # None /\ decls[resolvedDecl].type = "Alias") =>
        /\ inferred # NoType
        /\ decls[resolvedDecl].symbolName = NoName =>
              inferred = applyLoaderActionsToModuleType(
                             ModuleTypeCreate, decls[resolvedDecl], importLookup,
                             lookedUp).type
        /\ (decls[resolvedDecl].symbolName # NoName
            /\ decls[resolvedDecl].submoduleFallback # None) =>
              inferred = applyLoaderActionsToModuleType(
                             ModuleTypeCreate,
                             decls[decls[resolvedDecl].submoduleFallback],
                             importLookup, lookedUp).type

(***************************************************************************)
(* C6: applying loader actions whose lookups all succeed yields a Module   *)
(* whose fields are the symbol table importLookup returned for the path    *)
(* (and whose docString is that result's), whose loaderFields has exactly  *)
(* one entry per implicit import, each wrapping the Module built from the  *)
(* nested actions; nothing is written to fields, so the looked-up symbol   *)
(* tables stay as they were.                                               *)
(***************************************************************************)
RECURSIVE AllLookupsSucceed(_)
AllLookupsSucceed(actions) ==
    /\ actions.path # None => importLookup[actions.path].found
    /\ \A i \in DOMAIN actions.implicitImports :
          AllLookupsSucceed(actions.implicitImports[i].actions)

RECURSIVE ModuleMatches(_, _)
ModuleMatches(type, actions) ==
    /\ type.category = "Module"
    /\ type.fields = actions.path
    /\ actions.path # None => type.docString = importLookup[actions.path].docString
    /\ DOMAIN type.loaderFields =
          {actions.implicitImports[i].name : i \in DOMAIN actions.implicitImports}
    /\ \A i \in DOMAIN actions.implicitImports :
          ModuleMatches(type.loaderFields[actions.implicitImports[i].name].type,
                        actions.implicitImports[i].actions)

\* C6: a resolved module Alias whose loader actions' lookups all succeed is
\* materialized as described above, and every ImportLookup result is left as
\* it was
C6_Materialization ==
    [][(/\ pc = "resolved"
        /\ pc' = "done"
        /\ resolvedDecl # None
        /\ decls[resolvedDecl].type = "Alias"
        /\ decls[resolvedDecl].symbolName = NoName
        /\ AllLookupsSucceed(decls[resolvedDecl]))
       => /\ ModuleMatches(inferred', decls[resolvedDecl])
          /\ importLookup' = importLookup]_vars

\* pkg/__init__ with two implicit imports, one of them with a path, built
C6_Witness ==
    /\ pc = "done"
    /\ decls[1].path # None
    /\ Len(decls[1].implicitImports) = 2
    /\ decls[1].implicitImports[2].actions.path \notin {None, decls[1].path}
    /\ AllLookupsSucceed(decls[1])
    /\ inferred.category = "Module"
    /\ DOMAIN inferred.loaderFields = {"os", "sub"}
    /\ inferred.loaderFields["sub"].type.category = "Module"
    /\ inferred.loaderFields["sub"].type.fields = decls[1].implicitImports[2].actions.path

(***************************************************************************)
(* Claim-side reading of the name worlds                                   *)
(***************************************************************************)
Named == pc = "named"

\* the argument is the source name X of "from mod import X as Y"
ArgIsAliasedImportSource ==
    /\ parseNodes[nameNode].parent # None
    /\ parseNodes[parseNodes[nameNode].parent].nodeType = "ImportFromAs"
    /\ parseNodes[parseNodes[nameNode].parent].alias # None
    /\ parseNodes[parseNodes[nameNode].parent].name = nameNode

ArgIsMember ==
    /\ parseNodes[nameNode].parent # None
    /\ parseNodes[parseNodes[nameNode].parent].nodeType = "MemberAccess"
    /\ parseNodes[parseNodes[nameNode].parent].memberName = nameNode

ArgIsModulePart ==
    /\ parseNodes[nameNode].parent # None
    /\ parseNodes[parseNodes[nameNode].parent].nodeType = "ModuleName"

ArgIsPlain == ~ArgIsAliasedImportSource /\ ~ArgIsMember /\ ~ArgIsModulePart

\* the scopes from the argument's own outwards
RECURSIVE ScopeChain(_)
ScopeChain(scope) ==
    IF scope = None THEN <<>> ELSE <<scope>> \o ScopeChain(scopes[scope].parent)

\* positions of the chain whose table holds the argument's name
ScopeHits ==
    LET chain == ScopeChain(nodeScope[nameNode])
    IN  {i \in DOMAIN chain : parseNodes[nameNode].value \in DOMAIN scopes[chain[i]].symbolTable}

InnermostSymbol ==
    LET chain == ScopeChain(nodeScope[nameNode])
    IN  scopes[chain[Min(ScopeHits)]].symbolTable[parseNodes[nameNode].value]

C7_WitnessSource ==
    /\ Named
    /\ nameNode = 3
    /\ ArgIsAliasedImportSource
    /\ ScopeHits # {}
    /\ nameResult = NotResolved

\* the classes of an MRO, in order, whose table holds the member
MroHits(cls, memberName, typedOnly) ==
    LET mro == classes[cls].mro
    IN  {i \in DOMAIN mro :
            /\ memberName \in DOMAIN classes[mro[i]].fields
            /\ typedOnly => TypedPositions(classes[mro[i]].fields[memberName]) # {}}

TypedPart(ds) == SelectSeq(ds, LAMBDA d : hasTypeForDeclaration(decls[d]))

\* what one variant of the base type adds to the result
Contribution(variant, memberName) ==
    LET cls == IF variant.category = "Class" THEN variant.details
               ELSE IF variant.category = "Object" THEN variant.classType
               ELSE ""
    IN  IF variant.category \in {"Class", "Object"}
        THEN IF MroHits(cls, memberName, TRUE) # {}
             THEN TypedPart(classes[classes[cls].mro[Min(MroHits(cls, memberName, TRUE))]]
                                .fields[memberName])
             ELSE IF MroHits(cls, memberName, FALSE) # {}
             THEN classes[classes[cls].mro[Min(MroHits(cls, memberName, FALSE))]]
                      .fields[memberName]
             ELSE <<>>
        ELSE IF variant.category = "Module"
        THEN IF memberName \in DOMAIN importLookup[variant.fields].symbolTable
             THEN LET ds == importLookup[variant.fields].symbolTable[memberName]
                  IN  IF TypedPart(ds) # <<>> THEN TypedPart(ds) ELSE ds
             ELSE <<>>
        ELSE <<>>

RECURSIVE Concatenation(_, _)
Concatenation(variants, memberName) ==
    IF variants = <<>> THEN <<>>
    ELSE Contribution(Head(variants), memberName)
             \o Concatenation(Tail(variants), memberName)

BaseVariants ==
    LET baseType == expressionType[parseNodes[parseNodes[nameNode].parent].leftExpression]
    IN  IF baseType.category = "Union" THEN baseType.subtypes ELSE <<baseType>>

\* C8: for a member access whose base type is a union, the declarations are
\* the concatenation, variant by variant in the union's order, of each
\* variant's contribution: the typed declarations of the Symbol it yields when
\* there are any, else all of that Symbol's declarations, and nothing for a
\* variant without a matching member or of another category than Class,
\* Object and Module
C8_UnionConcatenation ==
    (Named /\ ArgIsMember
       /\ expressionType[parseNodes[parseNodes[nameNode].parent].leftExpression] # NoType)
    => /\ nameResult.defined
       /\ nameResult.declarations = Concatenation(BaseVariants, parseNodes[nameNode].value)

\* a union of a class that inherits the member with a typed and an untyped
\* declaration and a module whose member is untyped only
C8_Witness ==
    /\ Named
    /\ ArgIsMember
    /\ Len(BaseVariants) = 2
    /\ BaseVariants[1].category = "Class"
    /\ BaseVariants[2].category = "Module"
    /\ classes["A"].fields = NoSymbols
    /\ classes["PA"].fields = [n \in {"m"} |-> <<2, 1>>]
    /\ nameResult.declarations = <<1, 4, 4>>


(***************************************************************************)
(* Claim-side reading of the type worlds                                   *)
(***************************************************************************)
Derived == pc = "done" /\ nameResult.defined /\ Len(nameResult.declarations) = 1

TheDeclaration == decls[nameResult.declarations[1]]

\* the annotation as written in the source, None when there is none
WrittenAnnotation ==
    IF TheDeclaration.type = "Parameter"
    THEN parseNodes[TheDeclaration.node].typeAnnotation
    ELSE TheDeclaration.typeAnnotationNode

\* the annotation expression: of a string literal, the annotation it spells
AnnotationExpression ==
    IF WrittenAnnotation # None /\ parseNodes[WrittenAnnotation].nodeType = "StringList"
    THEN parseNodes[WrittenAnnotation].typeAnnotation
    ELSE WrittenAnnotation

AttachedType(node) == IF node = None THEN NoType ELSE expressionType[node]

InstanceOf(type) ==
    IF type.category = "Class" THEN [category |-> "Object", classType |-> type.details]
    ELSE type

\* the nearest Class, Function or Module node above a node
RECURSIVE ScopeNodeAbove(_)
ScopeNodeAbove(node) ==
    IF parseNodes[parseNodes[node].parent].nodeType \in {"Class", "Function", "Module"}
    THEN parseNodes[node].parent
    ELSE ScopeNodeAbove(parseNodes[node].parent)

\* the name of the class in whose body the node directly stands, "" if none
BodyClassOf(node) ==
    IF parseNodes[ScopeNodeAbove(node)].nodeType = "Class"
    THEN expressionType[ScopeNodeAbove(node)].details
    ELSE ""

IsMemberMakingEnum(className) ==
    /\ className # ""
    /\ ClassDetails[className].enum
    /\ className \notin {"Enum", "IntEnum", "Flag", "IntFlag"}

AnnotatedPlainName ==
    /\ Derived
    /\ ArgIsPlain
    /\ TheDeclaration.type \in {"Parameter", "Variable"}
    /\ WrittenAnnotation # None

\* C9, as stated: for a plain identifier declared exactly once, as a Parameter
\* or a Variable with an explicit annotation and wherever the declaration
\* stands, the type derived for the declaration the name resolves to is the
\* type attached to the annotation expression, a class turned into its
\* instance
C9_RoundTripEverywhere ==
    AnnotatedPlainName
    => declaredType = InstanceOf(AttachedType(AnnotationExpression))

\* C9, amended: the derived type is the type attached to the annotation
\* expression, a class turned into its instance, except for a Variable whose
\* annotation has an attached type and stands directly in the body of an enum
\* class other than Enum, IntEnum, Flag and IntFlag: its derived type is an
\* instance of that enclosing class
C9_RoundTripButEnumBody ==
    AnnotatedPlainName
    => IF /\ TheDeclaration.type = "Variable"
          /\ AttachedType(AnnotationExpression) # NoType
          /\ IsMemberMakingEnum(BodyClassOf(AnnotationExpression))
       THEN declaredType = [category |-> "Object",
                            classType |-> BodyClassOf(AnnotationExpression)]
       ELSE declaredType = InstanceOf(AttachedType(AnnotationExpression))

\* v: "int" in the body of the enum class Color derives a Color instance
C9_Witness ==
    /\ AnnotatedPlainName
    /\ TheDeclaration.type = "Variable"
    /\ parseNodes[WrittenAnnotation].nodeType = "StringList"
    /\ AttachedType(AnnotationExpression) = ClassType("int")
    /\ BodyClassOf(AnnotationExpression) = "Color"
    /\ declaredType = ObjectType("Color")

\* the value assigned by the statement that declares the Variable
AssignedValue ==
    CHOOSE n \in DOMAIN parseNodes :
        /\ parseNodes[n].nodeType = "Number"
        /\ parseNodes[n].parent = parseNodes[TheDeclaration.node].parent

VariableInClassBody ==
    /\ Derived
    /\ TheDeclaration.type = "Variable"
    /\ BodyClassOf(TheDeclaration.node) # ""

C10_WitnessNonEnum ==
    /\ VariableInClassBody
    /\ BodyClassOf(TheDeclaration.node) = "Point"
    /\ AttachedType(AnnotationExpression) = ClassType("int")
    /\ inferred = ObjectType("int")


(***************************************************************************)
(* Claim-side reading of the calls of importLookup                         *)
(***************************************************************************)
\* the alias the loop stands at names a module that importLookup cannot find
AtFailingLookup ==
    /\ decls[curDeclaration].type = "Alias"
    /\ decls[curDeclaration].symbolName # NoName
    /\ decls[curDeclaration].path # None
    /\ ~importLookup[decls[curDeclaration].path].found

\* the last call of importLookup is the one for p, it failed, and every call
\* before it succeeded
LastCallFailedFor(p) ==
    /\ lookedUp # <<>>
    /\ lookedUp[Len(lookedUp)] = p
    /\ ~importLookup[p].found
    /\ \A i \in 1..(Len(lookedUp) - 1) : importLookup[lookedUp[i]].found

\* C11: when importLookup fails for the path of the alias the chase stands
\* at, resolveAliasDeclaration returns absent in that very step: the failed
\* call is its last call of importLookup, and no call on the alias's
\* submoduleFallback is made, whether or not the alias has one; nothing is
\* looked up afterwards either, the caller getting no type
C11_LookupFailureIsTerminal ==
    [][/\ (pc = "resolve" /\ AtFailingLookup)
          => /\ pc' = "resolved"
             /\ resolvedDecl' = None
             /\ exitLine' = 143
             /\ lookedUp' = Append(lookedUp, decls[curDeclaration].path)
             /\ callStack' = callStack
             /\ usedFallback' = usedFallback
       /\ (Returned /\ exitLine = 143)
          => /\ resolvedDecl' = None
             /\ inferred' = NoType
             /\ lookedUp' = lookedUp
             /\ LastCallFailedFor(decls[curDeclaration].path)]_vars

\* the second alias of a chase has a submoduleFallback and a path that is not
\* found: the call is over after two lookups, the fallback untouched
C11_Witness ==
    /\ pc = "done"
    /\ exitLine = 143
    /\ decls[curDeclaration].submoduleFallback # None
    /\ curDeclaration # declArg
    /\ Len(lookedUp) = 2
    /\ LastCallFailedFor(decls[curDeclaration].path)
    /\ ~usedFallback
    /\ resolvedDecl = None
    /\ inferred = NoType


(***************************************************************************)
(* Claim-side reading of the submoduleFallback recursion                   *)
(***************************************************************************)
\* the alias d has a symbolName that no symbol table gives: the module was
\* looked up and lacks the name, or the alias has no path to look up
SymbolMissingAt(d) ==
    /\ decls[d].type = "Alias"
    /\ decls[d].symbolName # NoName
    /\ \/ decls[d].path = None
       \/ /\ importLookup[decls[d].path].found
          /\ decls[d].symbolName \notin DOMAIN importLookup[decls[d].path].symbolTable

\* where the chase from d leaves the symbol-table edges
EndOf(d) == ChasePath(d)[Len(ChasePath(d)) - 1]

\* what resolving d on its own returns when its chase needs no fallback: d
\* for a chase caught in a cycle, the declaration the chase ends at when that
\* is no Alias or a module Alias, and nothing otherwise
ChaseOutcome(d) ==
    IF RunsIntoCycle(ChasePath(d)) THEN d
    ELSE IF decls[EndOf(d)].type # "Alias" \/ decls[EndOf(d)].symbolName = NoName
         THEN EndOf(d)
    ELSE None

\* C12: when the symbolName of the alias the chase stands at is not found
\* (its module lacks the name, or it has no path), the call returns absent if
\* the alias has no submoduleFallback, and otherwise hands over to a fresh
\* call on the submoduleFallback whose result it returns as it is: what the
\* outermost call returns after fallbacks is what resolving the last fallback
\* on its own returns, whatever was chased before
C12_FallbackResult ==
    [][/\ (pc = "resolve" /\ SymbolMissingAt(curDeclaration)
             /\ decls[curDeclaration].submoduleFallback = None)
          => /\ pc' = "resolved"
             /\ resolvedDecl' = None
       /\ (pc = "resolve" /\ SymbolMissingAt(curDeclaration)
             /\ decls[curDeclaration].submoduleFallback # None)
          => /\ callStack' = Append(callStack, decls[curDeclaration].submoduleFallback)
             /\ pc' \in {"resolve", "diverged"}
             /\ pc' = "resolve"
                => /\ curDeclaration' = decls[curDeclaration].submoduleFallback
                   /\ alreadyVisited' = <<>>
       /\ (pc' = "resolved" /\ Len(callStack') >= 2)
          => /\ resolvedDecl' = ChaseOutcome(callStack'[Len(callStack')])
             /\ \A i \in 2..Len(callStack') :
                   /\ ~RunsIntoCycle(ChasePath(callStack'[i - 1]))
                   /\ SymbolMissingAt(EndOf(callStack'[i - 1]))
                   /\ callStack'[i] = decls[EndOf(callStack'[i - 1])].submoduleFallback]_vars

\* A chases to B, B's module lacks the name and B falls back on C, whose
\* chase runs into a cycle: the call on A returns C
C12_Witness ==
    /\ Returned
    /\ Len(callStack) = 2
    /\ EndOf(declArg) # declArg
    /\ SymbolMissingAt(EndOf(declArg))
    /\ decls[EndOf(declArg)].path # None
    /\ RunsIntoCycle(ChasePath(callStack[2]))
    /\ resolvedDecl = callStack[2]


(***************************************************************************)
(* Claim-side reading of a loader tree with failing lookups                *)
(***************************************************************************)
FailsAt(actions) == actions.path # None /\ ~importLookup[actions.path].found

\* the type built for a node: Unknown when its own lookup fails, else a
\* Module with the node's fields and one loaderFields entry per implicit
\* import, each holding what is built for that import's own subtree
RECURSIVE Contained(_, _)
Contained(type, actions) ==
    IF FailsAt(actions) THEN type = [category |-> "Unknown"]
    ELSE /\ type.category = "Module"
         /\ type.fields = actions.path
         /\ actions.path # None => type.docString = importLookup[actions.path].docString
         /\ DOMAIN type.loaderFields =
               {actions.implicitImports[i].name : i \in DOMAIN actions.implicitImports}
         /\ \A i \in DOMAIN actions.implicitImports :
               Contained(type.loaderFields[actions.implicitImports[i].name].type,
                         actions.implicitImports[i].actions)

\* the lookups the application of a subtree makes: its own, and those of its
\* implicit imports, in order, unless its own fails
RECURSIVE CallsOf(_)
RECURSIVE CallsOfImports(_, _)
CallsOfImports(implicitImports, i) ==
    IF i > Len(implicitImports) THEN <<>>
    ELSE CallsOf(implicitImports[i].actions) \o CallsOfImports(implicitImports, i + 1)

CallsOf(actions) ==
    IF actions.path = None THEN CallsOfImports(actions.implicitImports, 1)
    ELSE IF FailsAt(actions) THEN <<actions.path>>
    ELSE <<actions.path>> \o CallsOfImports(actions.implicitImports, 1)

\* C13: when a lookup fails while loader actions are applied, the failure
\* stays in the subtree of the failing node: that node's call returns Unknown
\* and looks nothing up for its implicit imports, and a parent whose own
\* lookup succeeds stays a Module with its fields, holding Unknown under the
\* failing import's name and under every other name what that import's own
\* subtree builds; no ImportLookup result is modified
C13_FailureContained ==
    [][(/\ pc = "resolved"
        /\ pc' = "done"
        /\ resolvedDecl # None
        /\ decls[resolvedDecl].type = "Alias"
        /\ decls[resolvedDecl].symbolName = NoName
        /\ ~AllLookupsSucceed(decls[resolvedDecl]))
       => /\ Contained(inferred', decls[resolvedDecl])
          /\ lookedUp' = lookedUp \o CallsOf(decls[resolvedDecl])
          /\ importLookup' = importLookup]_vars

\* pkg is found, its implicit import os is not, its implicit import sub is
C13_Witness ==
    /\ pc = "done"
    /\ decls[1].path # None
    /\ Len(decls[1].implicitImports) = 2
    /\ FailsAt(decls[1].implicitImports[1].actions)
    /\ decls[1].implicitImports[2].actions.path = decls[1].path
    /\ inferred.category = "Module"
    /\ inferred.fields = decls[1].path
    /\ inferred.loaderFields["os"].type = UnknownType
    /\ inferred.loaderFields["sub"].type.category = "Module"
    /\ inferred.loaderFields["sub"].type.fields = decls[1].path
    /\ lookedUp = <<decls[1].path, decls[1].implicitImports[1].actions.path, decls[1].path>>

\* pkg itself is not found: Unknown, and nothing is looked up for os and sub
C13_WitnessRoot ==
    /\ pc = "done"
    /\ FailsAt(decls[1])
    /\ Len(decls[1].implicitImports) = 2
    /\ decls[1].implicitImports[1].actions.path # None
    /\ inferred = UnknownType
    /\ lookedUp = <<decls[1].path>>

====
